---- MODULE Spec2Model ----
(***************************************************************************)
(* A model of bin/merge_package_json.py: the npm version-range merger      *)
(* (normalize_npm_version .. merge_dependencies), the generic deep merger  *)
(* (_deep_merge_value, deep_merge) and the left-to-right fold over the     *)
(* input documents (load_package_json, merge_package_json_files).          *)
(*                                                                         *)
(* A Python str is a sequence of one-character strings, so that prefix     *)
(* tests, substring tests, splitting, sorting and joining are computed     *)
(* character by character as the code computes them.                       *)
(*                                                                         *)
(* Spec is the fold of merge_package_json_files over a list of files.      *)
(* SpecVer, SpecDeps, SpecShapes, SpecLists and SpecOverrides each run one *)
(* function of the program on every input of an enumerated set.            *)
(***************************************************************************)
EXTENDS Integers, Sequences, FiniteSets, TLC

VARIABLES
    pc,          \* position of the run: which operation has acted
    base,        \* first argument of the operation under study
    update,      \* second argument of the operation under study
    hashPick,    \* range string -> which primitive node a walk of its clause meets first
    result,      \* what the operation returned (or the exception it raised)
    heap,        \* the Python heap: address -> dict or list object
    heap0,       \* address -> the object an input document held there when loaded
    docKey,      \* the manifest key both documents of a single merge carry
    strategy,    \* list_strategy: "replace" or "merge"
    docs,        \* the input documents (JSON texts), in command-line order
    pos,         \* number of documents merge_package_json_files has loaded
    merges       \* number of deep_merge calls of the fold that have run

vars == <<pc, base, update, hashPick, result, heap, heap0, docKey, strategy, docs, pos, merges>>

(***************************************************************************)
(* Bounds of the model.                                                    *)
(***************************************************************************)
\* largest major, minor or patch number of a generated range string
MaxNum == 1
\* largest number of packages in a dependency mapping
MaxDeps == 2
\* largest number of elements in an array of an input document
MaxList == 2

(***************************************************************************)
(* Strings.                                                                *)
(***************************************************************************)
DigitChars == <<"0", "1", "2", "3", "4", "5", "6", "7", "8", "9">>

IsDigit(c) == \E i \in 1..10 : DigitChars[i] = c

DigitVal(c) == (CHOOSE i \in 1..10 : DigitChars[i] = c) - 1

\* str(n) for a natural number n
RECURSIVE NatToStr(_)
NatToStr(n) ==
    IF n < 10 THEN <<DigitChars[n + 1]>>
    ELSE NatToStr(n \div 10) \o <<DigitChars[(n % 10) + 1]>>

\* int(s) for a string of decimal digits
RECURSIVE StrToNat(_)
StrToNat(s) ==
    IF Len(s) = 0 THEN 0
    ELSE 10 * StrToNat(SubSeq(s, 1, Len(s) - 1)) + DigitVal(s[Len(s)])

\* s[i:i+len(sub)] == sub
OccursAt(s, sub, i) ==
    /\ i >= 1
    /\ i + Len(sub) - 1 <= Len(s)
    /\ \A k \in 1..Len(sub) : s[i + k - 1] = sub[k]

\* sub in s
Contains(s, sub) == \E i \in 1..(Len(s) - Len(sub) + 1) : OccursAt(s, sub, i)

\* s.find(sub) + 1 (0 when sub does not occur)
Find(s, sub) ==
    IF Contains(s, sub)
    THEN CHOOSE i \in 1..(Len(s) - Len(sub) + 1) :
            /\ OccursAt(s, sub, i)
            /\ \A j \in 1..(i - 1) : ~OccursAt(s, sub, j)
    ELSE 0

\* s.startswith(p)
StartsWith(s, p) == OccursAt(s, p, 1)

\* s.split(sep) for a non-empty separator
RECURSIVE Split(_, _)
Split(s, sep) ==
    LET i == Find(s, sep)
    IN  IF i = 0 THEN <<s>>
        ELSE <<SubSeq(s, 1, i - 1)>> \o Split(SubSeq(s, i + Len(sep), Len(s)), sep)

\* s.strip()
RECURSIVE Strip(_)
Strip(s) ==
    IF Len(s) = 0 THEN s
    ELSE IF s[1] = " " THEN Strip(Tail(s))
    ELSE IF s[Len(s)] = " " THEN Strip(SubSeq(s, 1, Len(s) - 1))
    ELSE s

\* s.replace("x", "0").replace("X", "0")
ReplaceWildcards(s) == [i \in 1..Len(s) |-> IF s[i] \in {"x", "X"} THEN "0" ELSE s[i]]

\* sep.join(parts)
RECURSIVE Join(_, _)
Join(sep, parts) ==
    IF Len(parts) = 0 THEN <<>>
    ELSE IF Len(parts) = 1 THEN parts[1]
    ELSE parts[1] \o sep \o Join(sep, Tail(parts))

(***************************************************************************)
(* Literals of the source.                                                 *)
(***************************************************************************)
STAR == <<"*">>
LATEST == <<"l", "a", "t", "e", "s", "t">>
NEXT_TAG == <<"n", "e", "x", "t">>
EMPTY_STR == <<>>

\* SPECIAL_PROTOCOLS: workspace:, git+, http://, https://, file:, github:
SPECIAL_PROTOCOLS ==
    { <<"w", "o", "r", "k", "s", "p", "a", "c", "e", ":">>,
      <<"g", "i", "t", "+">>,
      <<"h", "t", "t", "p", ":", "/", "/">>,
      <<"h", "t", "t", "p", "s", ":", "/", "/">>,
      <<"f", "i", "l", "e", ":">>,
      <<"g", "i", "t", "h", "u", "b", ":">> }

\* PREFIX_PRIORITY: ^ > ~ > >= > > > {=, <=, <}
PREFIX_PRIORITY ==
    [op \in {"^", "~", ">=", ">", "=", "<=", "<"} |->
        CASE op = "^" -> 4
          [] op = "~" -> 3
          [] op = ">=" -> 2
          [] op = ">" -> 1
          [] OTHER -> 0]

\* PREFIX_PRIORITY.get(op, 0)
PriorityOf(op) == IF op \in DOMAIN PREFIX_PRIORITY THEN PREFIX_PRIORITY[op] ELSE 0

DEPENDENCY_KEYS ==
    { "dependencies", "devDependencies", "peerDependencies",
      "optionalDependencies", "bundledDependencies", "bundleDependencies" }

\* any(protocol in version_str for protocol in SPECIAL_PROTOCOLS)
HasProtocol(s) == \E p \in SPECIAL_PROTOCOLS : Contains(s, p)

\* version_str in ("*", "latest")
IsWildcard(s) == s = STAR \/ s = LATEST

\* version_str in ("*", "latest", "next", "")
IsSpecialToken(s) == s = STAR \/ s = LATEST \/ s = NEXT_TAG \/ s = EMPTY_STR

normalize_npm_version(version_str) ==
    IF IsSpecialToken(version_str) THEN version_str
    ELSE IF HasProtocol(version_str) THEN version_str
    ELSE ReplaceWildcards(version_str)

\* re.match(r"^([\^~]|>=|<=|>|<|=)", version_str), "=" when nothing matches
get_version_prefix(version_str) ==
    IF StartsWith(version_str, <<"^">>) THEN "^"
    ELSE IF StartsWith(version_str, <<"~">>) THEN "~"
    ELSE IF StartsWith(version_str, <<">", "=">>) THEN ">="
    ELSE IF StartsWith(version_str, <<"<", "=">>) THEN "<="
    ELSE IF StartsWith(version_str, <<">">>) THEN ">"
    ELSE IF StartsWith(version_str, <<"<">>) THEN "<"
    ELSE "="

(***************************************************************************)
(* semantic_version: Version, Range and NpmSpec, as far as the merger uses *)
(* them.  A Version is <<major, minor, patch>>; the range strings of the   *)
(* model carry no prerelease or build suffix.  A parsed NpmSpec is the     *)
(* list of the Range nodes of its clause tree; ok = FALSE stands for the   *)
(* ValueError or AttributeError the constructor raises.                    *)
(***************************************************************************)
None == -1

Version(major, minor, patch) == <<major, minor, patch>>

\* Version ordering: major, then minor, then patch
VersionLt(a, b) ==
    \/ a[1] < b[1]
    \/ a[1] = b[1] /\ a[2] < b[2]
    \/ a[1] = b[1] /\ a[2] = b[2] /\ a[3] < b[3]

next_major(v) == Version(v[1] + 1, 0, 0)
next_minor(v) == Version(v[1], v[2] + 1, 0)
next_patch(v) == Version(v[1], v[2], v[3] + 1)

Range(operator, target) == [operator |-> operator, target |-> target]

Raised == [ok |-> FALSE, ranges |-> <<>>]
Parsed(ranges) == [ok |-> TRUE, ranges |-> ranges]

\* NUMBER = x|X|\*|0|[1-9][0-9]*
IsNumberToken(t) ==
    \/ t \in {<<"x">>, <<"X">>, <<"*">>, <<"0">>}
    \/ /\ Len(t) >= 1
       /\ IsDigit(t[1]) /\ t[1] # "0"
       /\ \A i \in 1..Len(t) : IsDigit(t[i])

\* None if t in EMPTY_VALUES else int(t)
NumberOf(t) == IF t \in {<<"x">>, <<"X">>, <<"*">>} THEN None ELSE StrToNat(t)

\* the op group of NPM_SPEC_BLOCK: <=, >=, <, >, =, ^, ~ or nothing
LeadingOperator(s) ==
    IF StartsWith(s, <<"<", "=">>) THEN "<="
    ELSE IF StartsWith(s, <<">", "=">>) THEN ">="
    ELSE IF StartsWith(s, <<"<">>) THEN "<"
    ELSE IF StartsWith(s, <<">">>) THEN ">"
    ELSE IF StartsWith(s, <<"=">>) THEN "="
    ELSE IF StartsWith(s, <<"^">>) THEN "^"
    ELSE IF StartsWith(s, <<"~">>) THEN "~"
    ELSE ""

\* the groups of a match whose operator is op and whose dotted parts are parts
MatchGroups(op, parts) ==
    IF ~(Len(parts) <= 3 /\ \A i \in 1..Len(parts) : IsNumberToken(parts[i]))
    THEN [ok |-> FALSE, op |-> "", major |-> None, minor |-> None, patch |-> None]
    ELSE [ok |-> TRUE, op |-> op,
          major |-> NumberOf(parts[1]),
          minor |-> IF Len(parts) >= 2 THEN NumberOf(parts[2]) ELSE None,
          patch |-> IF Len(parts) >= 3 THEN NumberOf(parts[3]) ELSE None]

\* the match of the text after the optional v
MatchAfterV(s, op) ==
    MatchGroups(op, Split(SubSeq(s, (IF op \in {"<=", ">="} THEN 2 ELSE IF op = "" THEN 0 ELSE 1) + 1,
                                 Len(s)), <<".">>))

\* NPM_SPEC_BLOCK.match(block): optional v, operator, major[.minor[.patch]]
BlockMatch(block) ==
    LET noV == IF StartsWith(block, <<"v">>) THEN Tail(block) ELSE block
    IN  MatchAfterV(noV, LeadingOperator(noV))

\* the version a match stands for, missing parts read as 0
TargetOf(m) ==
    IF m.minor = None THEN Version(m.major, 0, 0)
    ELSE IF m.patch = None THEN Version(m.major, m.minor, 0)
    ELSE Version(m.major, m.minor, m.patch)

\* the body of parse_simple on the match m with operator prefix and target
RangesOfMatch(m, prefix, target) ==
    IF ~m.ok THEN Raised
    ELSE IF m.major = None THEN
        IF prefix \notin {"=", ">="} THEN Raised
        ELSE Parsed(<<Range(">=", Version(0, 0, 0))>>)
    ELSE IF prefix = "^" THEN
        LET high == IF target[1] # 0 THEN next_major(target)
                    ELSE IF target[2] # 0 THEN next_minor(target)
                    ELSE IF m.minor = None THEN next_major(target)
                    ELSE IF m.patch = None THEN next_minor(target)
                    ELSE next_patch(target)
        IN  Parsed(<<Range(">=", target), Range("<", high)>>)
    ELSE IF prefix = "~" THEN
        LET high == IF m.minor = None THEN next_major(target) ELSE next_minor(target)
        IN  Parsed(<<Range(">=", target), Range("<", high)>>)
    ELSE IF prefix = "=" THEN
        IF m.minor = None
        THEN Parsed(<<Range(">=", target), Range("<", next_major(target))>>)
        ELSE IF m.patch = None
        THEN Parsed(<<Range(">=", target), Range("<", next_minor(target))>>)
        ELSE Parsed(<<Range("==", target)>>)
    ELSE IF prefix = ">" THEN
        IF m.minor = None THEN Parsed(<<Range(">=", next_major(target))>>)
        ELSE IF m.patch = None THEN Parsed(<<Range(">=", next_minor(target))>>)
        ELSE Parsed(<<Range(">", target)>>)
    ELSE IF prefix = ">=" THEN Parsed(<<Range(">=", target)>>)
    ELSE IF prefix = "<" THEN Parsed(<<Range("<", target)>>)
    ELSE IF m.minor = None THEN Parsed(<<Range("<", next_major(target))>>)
    ELSE IF m.patch = None THEN Parsed(<<Range("<", next_minor(target))>>)
    ELSE Parsed(<<Range("<=", target)>>)

\* parse_simple on a match: a missing operator reads as =
ParseMatch(m) ==
    RangesOfMatch(m, IF m.op = "" THEN "=" ELSE m.op, IF m.ok THEN TargetOf(m) ELSE Version(0, 0, 0))

\* NpmSpec.Parser.parse_simple
parse_simple(simple) == ParseMatch(BlockMatch(simple))

\* the nodes of two parses, or the failure of either
Both(head, rest) == IF head.ok /\ rest.ok THEN Parsed(head.ranges \o rest.ranges) ELSE Raised

\* the Range nodes of several blocks, or the first failure
RECURSIVE ParseBlocks(_)
ParseBlocks(blocks) ==
    IF Len(blocks) = 0 THEN Parsed(<<>>)
    ELSE Both(parse_simple(blocks[1]), ParseBlocks(Tail(blocks)))

\* one ||-group of NpmSpec.Parser.parse
ParseGroup(rawGroup) ==
    LET stripped == Strip(rawGroup)
        group == IF Len(stripped) = 0 THEN <<">", "=", "0", ".", "0", ".", "0">> ELSE stripped
    IN  IF Contains(group, <<" ", "-", " ">>) THEN
            LET halves == Split(group, <<" ", "-", " ">>)
            IN  IF Len(halves) # 2 THEN Raised
                ELSE ParseBlocks(<< <<">", "=">> \o halves[1], <<"<", "=">> \o halves[2] >>)
        ELSE ParseBlocks(Split(group, <<" ">>))

RECURSIVE ParseGroups(_)
ParseGroups(groups) ==
    IF Len(groups) = 0 THEN Parsed(<<>>)
    ELSE Both(ParseGroup(groups[1]), ParseGroups(Tail(groups)))

\* NpmSpec(expression)
NpmSpec(expression) == ParseGroups(Split(expression, <<"|", "|">>))

\* What _extract_version_from_spec gives: None, a Version, or an exception
\* that leaves it (err names the exception, "ok" when there is none).
NoVersion == [some |-> FALSE, v |-> Version(0, 0, 0), err |-> "ok"]
SomeVersion(v) == [some |-> TRUE, v |-> v, err |-> "ok"]
VersionRaised(e) == [some |-> FALSE, v |-> Version(0, 0, 0), err |-> e]

\* Version(s): a bare major.minor.patch; the ValueError of any other text is
\* caught at line 226 and gives None
VersionParse(s) ==
    LET parts == Split(s, <<".">>)
        good == /\ Len(parts) = 3
                /\ \A i \in 1..3 : IsNumberToken(parts[i]) /\ IsDigit(parts[i][1])
    IN  IF good
        THEN SomeVersion(Version(StrToNat(parts[1]), StrToNat(parts[2]), StrToNat(parts[3])))
        ELSE NoVersion

(***************************************************************************)
(* The range strings the merger is run on: every operator prefix on every  *)
(* full version up to MaxNum, and the special tokens, protocol references, *)
(* partial, compound and malformed ranges below.                           *)
(***************************************************************************)
OperatorPrefixes == { <<>>, <<"=">>, <<"^">>, <<"~">>, <<">", "=">>, <<">">>, <<"<", "=">>, <<"<">> }

GeneratedRanges ==
    { pre \o NatToStr(ma) \o <<".">> \o NatToStr(mi) \o <<".">> \o NatToStr(pa) :
        pre \in OperatorPrefixes, ma \in 0..MaxNum, mi \in 0..MaxNum, pa \in 0..MaxNum }

NamedRanges ==
    {
      <<"*">>,  \* *
      <<"l", "a", "t", "e", "s", "t">>,  \* latest
      <<"n", "e", "x", "t">>,  \* next
      <<>>,  \* (empty string)
      <<"^", "4", ".", "1", "7", ".", "1">>,  \* ^4.17.1
      <<"^", "4", ".", "1", "8", ".", "0">>,  \* ^4.18.0
      <<"~", "1", "6", ".", "8", ".", "0">>,  \* ~16.8.0
      <<"^", "1", "7", ".", "0", ".", "0">>,  \* ^17.0.0
      <<"^", "2", ".", "0", ".", "0">>,  \* ^2.0.0
      <<"f", "i", "l", "e", ":", ".", ".", "/", "l", "o", "c", "a", "l">>,  \* file:../local
      <<"g", "i", "t", "+", "h", "t", "t", "p", "s", ":", "/", "/", "x">>,  \* git+https://x
      <<"w", "o", "r", "k", "s", "p", "a", "c", "e", ":", "*">>,  \* workspace:*
      <<"1", ".", "x">>,  \* 1.x
      <<"1">>,  \* 1
      <<"~", "1">>,  \* ~1
      <<"^", "0", ".", "x">>,  \* ^0.x
      <<">", "1">>,  \* >1
      <<"<", "=", "1", ".", "0">>,  \* <=1.0
      <<"v", "1", ".", "0", ".", "0">>,  \* v1.0.0
      <<">", "=", "1", ".", "0", ".", "0", " ", "<", "2", ".", "0", ".", "0">>,  \* >=1.0.0 <2.0.0
      <<"1", ".", "0", ".", "0", " ", "-", " ", "2", ".", "0", ".", "0">>,  \* 1.0.0 - 2.0.0
      <<"^", "1", ".", "0", ".", "0", " ", "|", "|", " ", "^", "2", ".", "0", ".", "0">>,  \* ^1.0.0 || ^2.0.0
      <<"f", "o", "o">>,  \* foo
      <<"^", "*">>   \* ^*
    }

RangePool == GeneratedRanges \cup NamedRanges

\* NpmSpec(normalize_npm_version(s)), tabulated for every string of the pool
SpecOf == [s \in RangePool |-> NpmSpec(normalize_npm_version(s))]

\* NpmSpec(normalize_npm_version(s)) for any string: looked up, or parsed
ParsedSpec(s) == IF s \in RangePool THEN SpecOf[s] ELSE NpmSpec(normalize_npm_version(s))

\* the nodes a walk of a parsed clause can meet first
PicksOf(spec) == IF spec.ok /\ Len(spec.ranges) > 0 THEN 1..Len(spec.ranges) ELSE {1}

\* the nodes a walk of s's clause can meet first
Picks(s) == PicksOf(SpecOf[s])

\* the iteration orders one interpreter run can show on the strings of S:
\* equal clause trees are iterated in the same order
HashOrders(S) ==
    { f \in [S -> {n \in 1..4 : \E s \in S : n \in Picks(s)}] :
        /\ \A s \in S : f[s] \in Picks(s)
        /\ \A s, t \in S : SpecOf[s] = SpecOf[t] => f[s] = f[t] }

(***************************************************************************)
(* The walk of a clause tree.  AllOf and AnyOf keep their sub-clauses in a *)
(* frozenset, whose iteration order follows the hashes of the Range nodes  *)
(* (which hash the operator string and the Range class) and so differs     *)
(* from one interpreter run to the next: the node find_first_range meets   *)
(* first is any node of the tree, the pick-th of the list.                 *)
(***************************************************************************)
\* What a function of the version merger gives: the value it returns, or the
\* exception that leaves it (val is then a placeholder).
Done(v) == [err |-> "ok", val |-> v]
Failed(e, v) == [err |-> e, val |-> v]

\* find_first_range(clause)
find_first_range(spec, pick) == spec.ranges[pick]

\* get_operator_from_range(spec)
get_operator_from_range(spec, pick) ==
    IF Len(spec.ranges) = 0 THEN "="
    ELSE find_first_range(spec, pick).operator

\* _search_spec_clause_for_version(spec)
search_spec_clause_for_version(spec, pick) ==
    IF Len(spec.ranges) = 0 THEN NoVersion
    ELSE SomeVersion(find_first_range(spec, pick).target)

\* re.sub(r"^[\^~>=<]+", "", s)
RECURSIVE StripOperators(_)
StripOperators(s) ==
    IF Len(s) > 0 /\ s[1] \in {"^", "~", ">", "=", "<"} THEN StripOperators(Tail(s)) ELSE s

\* s.split(sep)[0].strip() if sep in s else s
FirstPart(s, sep) == IF Contains(s, sep) THEN Strip(Split(s, sep)[1]) ELSE s

\* cleaned.split()[0].strip() if " " in cleaned else cleaned.strip().  On a
\* text that holds a space and nothing but whitespace, split() is the empty
\* list and [0] raises IndexError.
FirstWord(s) ==
    IF ~Contains(s, <<" ">>) THEN Done(Strip(s))
    ELSE IF Strip(s) = <<>> THEN Failed("IndexError", <<>>)
    ELSE Done(Strip(Split(Strip(s), <<" ">>)[1]))

\* lines 221-226: Version() of the first word with its wildcards replaced.
\* The except clause catches ValueError and AttributeError only, so the
\* IndexError of line 218 leaves the function.
VersionOfWord(word) ==
    IF word.err # "ok" THEN VersionRaised(word.err)
    ELSE VersionParse(ReplaceWildcards(word.val))

\* the regex fallback of _extract_version_from_spec
TextFallback(original_str) ==
    VersionOfWord(FirstWord(
        FirstPart(FirstPart(StripOperators(original_str), <<"|", "|">>), <<" ", "-", " ">>)))

\* _extract_version_from_spec(spec, original_str)
extract_version_from_spec(spec, original_str, pick) ==
    IF IsSpecialToken(original_str) THEN NoVersion
    ELSE IF HasProtocol(original_str) THEN NoVersion
    ELSE LET version == search_spec_clause_for_version(spec, pick)
         IN  IF version.some THEN version ELSE TextFallback(original_str)

\* lines 255-270 of compare_npm_specs: the comparison of the two anchors
AnchorOrder(base_ver, update_ver) ==
    IF ~base_ver.some /\ ~update_ver.some THEN 0
    ELSE IF ~base_ver.some THEN 1
    ELSE IF ~update_ver.some THEN -1
    ELSE IF VersionLt(base_ver.v, update_ver.v) THEN 1
    ELSE IF VersionLt(update_ver.v, base_ver.v) THEN -1
    ELSE 0

\* lines 253-270 of compare_npm_specs: base's anchor is extracted first, then
\* update's; an exception of either extraction that line 272 does not catch
\* leaves compare_npm_specs
CompareAnchors(base_ver, update_ver) ==
    IF base_ver.err # "ok" THEN Failed(base_ver.err, 0)
    ELSE IF update_ver.err # "ok" THEN Failed(update_ver.err, 0)
    ELSE Done(AnchorOrder(base_ver, update_ver))

\* lines 248-272 of compare_npm_specs, given what the two NpmSpec
\* constructions produced
CompareParsed(base_spec, update_spec, base_version, update_version, pb, pu) ==
    IF ~base_spec.ok \/ ~update_spec.ok THEN Done(0)
    ELSE CompareAnchors(extract_version_from_spec(base_spec, base_version, pb),
                        extract_version_from_spec(update_spec, update_version, pu))

\* compare_npm_specs(base_version, update_version)
compare_npm_specs(base_version, update_version, pb, pu) ==
    CompareParsed(ParsedSpec(base_version), ParsedSpec(update_version),
                  base_version, update_version, pb, pu)

\* base_op / update_op of the tie-break: the literal ^ or ~ prefix, else the
\* operator of the first node met
EffectiveOperator(version_str, spec, pick) ==
    IF get_version_prefix(version_str) \in {"^", "~"} THEN get_version_prefix(version_str)
    ELSE get_operator_from_range(spec, pick)

\* a faulty tie-break: update also wins when the priorities are equal
TieBreakUpdateOnEqual(base_spec, update_spec, base_version, update_version, pb, pu) ==
    IF ~base_spec.ok \/ ~update_spec.ok THEN update_version
    ELSE IF PriorityOf(EffectiveOperator(update_version, update_spec, pu))
              >= PriorityOf(EffectiveOperator(base_version, base_spec, pb))
    THEN update_version
    ELSE base_version

\* lines 314-339, given what the two NpmSpec constructions produced
TieBreakParsed(base_spec, update_spec, base_version, update_version, pb, pu) ==
    IF ~base_spec.ok \/ ~update_spec.ok THEN update_version
    ELSE IF PriorityOf(EffectiveOperator(update_version, update_spec, pu))
              > PriorityOf(EffectiveOperator(base_version, base_spec, pb))
    THEN update_version
    ELSE base_version

\* lines 314-339 of merge_dependency_versions: the operator-priority tie-break
tie_break(base_version, update_version, pb, pu) ==
    TieBreakParsed(ParsedSpec(base_version), ParsedSpec(update_version),
                   base_version, update_version, pb, pu)

\* lines 306-339: the winner for a comparison result; line 307 stands in no
\* try block, so an exception of compare_npm_specs leaves the merger
ChooseByComparison(comparison, base_version, update_version, pb, pu) ==
    IF comparison.err # "ok" THEN Failed(comparison.err, <<>>)
    ELSE IF comparison.val > 0 THEN Done(update_version)
    ELSE IF comparison.val < 0 THEN Done(base_version)
    ELSE Done(tie_break(base_version, update_version, pb, pu))

\* a faulty merger: the protocol case is tried before the wildcard case
merge_versions_protocols_first(base_version, update_version, pb, pu) ==
    IF HasProtocol(base_version) \/ HasProtocol(update_version) THEN Done(update_version)
    ELSE IF IsWildcard(base_version) /\ ~IsWildcard(update_version) THEN Done(update_version)
    ELSE IF IsWildcard(update_version) /\ ~IsWildcard(base_version) THEN Done(base_version)
    ELSE ChooseByComparison(compare_npm_specs(base_version, update_version, pb, pu),
                            base_version, update_version, pb, pu)

\* merge_dependency_versions(base_version, update_version)
merge_dependency_versions(base_version, update_version, pb, pu) ==
    IF IsWildcard(base_version) /\ ~IsWildcard(update_version) THEN Done(update_version)
    ELSE IF IsWildcard(update_version) /\ ~IsWildcard(base_version) THEN Done(base_version)
    ELSE IF HasProtocol(base_version) \/ HasProtocol(update_version) THEN Done(update_version)
    ELSE ChooseByComparison(compare_npm_specs(base_version, update_version, pb, pu),
                            base_version, update_version, pb, pu)

NoResult == [op |-> "none", cmp |-> 0, out |-> <<>>, err |-> "ok"]

(***************************************************************************)
(* SpecVer: the version merger on one pair of range strings.               *)
(***************************************************************************)
InitVer ==
    /\ pc = "start"
    /\ base \in RangePool
    /\ update \in RangePool
    /\ hashPick \in HashOrders({base, update})
    /\ result = NoResult
    /\ heap = <<>>
    /\ heap0 = <<>>
    /\ docKey = ""
    /\ strategy = ""
    /\ docs = <<>>
    /\ pos = 0
    /\ merges = 0

\* a call of compare_npm_specs(base, update)
CallCompare ==
    /\ pc = "start"
    /\ pc' = "compared"
    /\ \E c \in {compare_npm_specs(base, update, hashPick[base], hashPick[update])} :
         result' = [op |-> "compare", cmp |-> c.val, out |-> <<>>, err |-> c.err]
    /\ UNCHANGED <<base, update, hashPick, heap, heap0, docKey, strategy, docs, pos, merges>>

\* a call of merge_dependency_versions(base, update)
CallMergeVersions ==
    /\ pc = "start"
    /\ pc' = "merged"
    /\ \E c \in {compare_npm_specs(base, update, hashPick[base], hashPick[update])} :
       \E m \in {merge_dependency_versions(base, update, hashPick[base], hashPick[update])} :
         result' = [op |-> "merge", cmp |-> c.val, out |-> m.val, err |-> m.err]
    /\ UNCHANGED <<base, update, hashPick, heap, heap0, docKey, strategy, docs, pos, merges>>

NextVer == CallCompare \/ CallMergeVersions

SpecVer == InitVer /\ [][NextVer]_vars

(***************************************************************************)
(* Claims about the version merger (SpecVer).                              *)
(***************************************************************************)
\* the range string carries a concrete anchor: it is no special token, holds
\* no protocol marker, and parses
HasAnchor(s) == ~IsSpecialToken(s) /\ ~HasProtocol(s) /\ SpecOf[s].ok

\* the anchor the documentation means: the version the range is written
\* around, i.e. the target of the first primitive node in written order
WrittenAnchor(s) == SpecOf[s].ranges[1].target

\* C1: when neither side is * or latest, neither holds a protocol marker and
\* both have a concrete anchor, and the anchors differ, then
\* merge_dependency_versions returns, unmodified, the string whose anchor is
\* the greater one, e.g. merge("^4.17.1", "^4.18.0") = "^4.18.0".
C1_HigherAnchorWins ==
    (/\ pc = "merged"
     /\ ~IsWildcard(base) /\ ~IsWildcard(update)
     /\ HasAnchor(base) /\ HasAnchor(update)
     /\ WrittenAnchor(base) # WrittenAnchor(update))
    => result.out = IF VersionLt(WrittenAnchor(base), WrittenAnchor(update))
                    THEN update ELSE base

\* C2: merge_dependency_versions first returns the other side when exactly
\* one side is * or latest (even if that other side holds a protocol marker),
\* and otherwise returns update when either side holds a protocol marker.
C2_SpecialCasesInOrder ==
    pc = "merged" =>
        /\ (IsWildcard(base) /\ ~IsWildcard(update)) => result.out = update
        /\ (IsWildcard(update) /\ ~IsWildcard(base)) => result.out = base
        /\ (/\ IsWildcard(base) = IsWildcard(update)
            /\ HasProtocol(base) \/ HasProtocol(update)) => result.out = update

\* C2 witness: base holds a protocol marker, update is a wildcard token, and
\* the protocol string (base) was returned.
C2_Witness ==
    /\ pc = "merged"
    /\ HasProtocol(base)
    /\ IsWildcard(update)
    /\ result.out = base

\* the special cases of lines 294-304 do not decide the pair
ReachesComparison(b, u) ==
    /\ IsWildcard(b) = IsWildcard(u)
    /\ ~HasProtocol(b) /\ ~HasProtocol(u)

\* the operator the tie-break attributes to a side: its literal ^ or ~
\* prefix, else the operator of the first primitive node its walk meets
TieOperator(s, pick) ==
    IF Len(s) > 0 /\ s[1] \in {"^", "~"} THEN <<s[1]>>
    ELSE IF Len(SpecOf[s].ranges) = 0 THEN <<"=">>
    ELSE LET o == SpecOf[s].ranges[pick].operator
         IN  IF o = ">=" THEN <<">", "=">>
             ELSE IF o = ">" THEN <<">">>
             ELSE IF o = "<=" THEN <<"<", "=">>
             ELSE IF o = "<" THEN <<"<">>
             ELSE <<"=">>

\* the priority order ^ > ~ > >= > > > {=, <=, <}, as a rank
TierRank(o) ==
    IF o = <<"^">> THEN 5
    ELSE IF o = <<"~">> THEN 4
    ELSE IF o = <<">", "=">> THEN 3
    ELSE IF o = <<">">> THEN 2
    ELSE 1

\* C8: on a tie of the comparator, merge_dependency_versions returns update
\* when update's operator priority is strictly greater than base's and base
\* otherwise; when the operators cannot be determined (a side does not
\* parse), it returns update.
C8_TieBreakByPriority ==
    (pc = "merged" /\ ReachesComparison(base, update) /\ result.err = "ok" /\ result.cmp = 0)
    => result.out =
         IF ~SpecOf[base].ok \/ ~SpecOf[update].ok THEN update
         ELSE IF TierRank(TieOperator(update, hashPick[update])) > TierRank(TieOperator(base, hashPick[base]))
         THEN update
         ELSE base

\* C8 witness: two different parseable ranges tie, update has the strictly
\* higher operator priority, and update was returned.
C8_Witness ==
    /\ pc = "merged"
    /\ ReachesComparison(base, update)
    /\ result.err = "ok"
    /\ result.cmp = 0
    /\ SpecOf[base].ok /\ SpecOf[update].ok
    /\ base # update
    /\ TierRank(TieOperator(update, hashPick[update])) > TierRank(TieOperator(base, hashPick[base]))
    /\ result.out = update

\* a side the claim counts as having no anchor: a special token or a
\* protocol string
AnchorAbsent(s) == IsSpecialToken(s) \/ HasProtocol(s)

\* C9: compare_npm_specs gives a special token (*, latest, next, "") or a
\* protocol string no anchor without parsing it, and returns 0 when both
\* anchors are absent, +1 when only base's is, -1 when only update's is; so
\* next paired with a parseable concrete range gives +1 as base and -1 as
\* update.
C9_AbsentAnchorLoses ==
    (/\ pc = "compared"
     /\ AnchorAbsent(base) \/ HasAnchor(base)
     /\ AnchorAbsent(update) \/ HasAnchor(update)
     /\ AnchorAbsent(base) \/ AnchorAbsent(update))
    => /\ result.err = "ok"
       /\ result.cmp = IF AnchorAbsent(base) /\ AnchorAbsent(update) THEN 0
                       ELSE IF AnchorAbsent(base) THEN 1
                       ELSE -1

(***************************************************************************)
(* Python values and the heap.  A value is <<tag, payload>>: a str (its    *)
(* characters), an int, or a reference to a dict or list object of the     *)
(* heap.  A heap object is <<"dict", items>>, items a sequence of          *)
(* <<key, value>> in insertion order, or <<"list", items>>, a sequence of  *)
(* values.  An address is an index of the heap.                            *)
(***************************************************************************)
Str(s) == <<"str", s>>
Num(n) == <<"num", n>>
DictRef(a) == <<"dict", a>>
ListRef(a) == <<"list", a>>
NoneVal == <<"none", 0>>

Tag(v) == v[1]
Payload(v) == v[2]

IsDict(v) == Tag(v) = "dict"
IsList(v) == Tag(v) = "list"

ItemsOf(h, v) == h[Payload(v)][2]

Ok(h, v) == [heap |-> h, val |-> v, err |-> "ok"]
Raise(h, e) == [heap |-> h, val |-> NoneVal, err |-> e]

\* position of key in a dict's items, 0 when absent
IndexOfKey(items, key) ==
    IF \E i \in 1..Len(items) : items[i][1] = key
    THEN CHOOSE i \in 1..Len(items) : items[i][1] = key
    ELSE 0

\* the keys of a dict's items, in order
KeysOf(items) == [i \in 1..Len(items) |-> items[i][1]]

\* d[key]
ValueAt(items, key) == items[IndexOfKey(items, key)][2]

\* d[key] = value on the items of a dict: in place, or appended when new
SetItem(items, key, value) ==
    LET i == IndexOfKey(items, key)
    IN  IF i = 0 THEN Append(items, <<key, value>>)
        ELSE [items EXCEPT ![i] = <<key, value>>]

\* result[key] = value, result the dict object at address r
StoreKey(h, r, key, value) == [h EXCEPT ![r] = <<"dict", SetItem(h[r][2], key, value)>>]

\* obj.copy(): a new object with the same items
CopyObject(h, v) == Append(h, h[Payload(v)])

\* the characters of the model's strings, in code-point order
CharOrder ==
    <<" ", "*", "+", "-", ".", "/", "0", "1", "2", "3", "4", "5", "6", "7", "8", "9",
      ":", "<", "=", ">", "X", "^", "a", "b", "c", "d", "e", "f", "g", "h", "i", "j",
      "k", "l", "m", "n", "o", "p", "q", "r", "s", "t", "u", "v", "w", "x", "y", "z",
      "|", "~">>

\* ord(c), up to an order-preserving renumbering
Ord(c) == CHOOSE i \in 1..Len(CharOrder) : CharOrder[i] = c

\* a < b on str
RECURSIVE StrLt(_, _)
StrLt(a, b) ==
    IF Len(b) = 0 THEN FALSE
    ELSE IF Len(a) = 0 THEN TRUE
    ELSE IF a[1] = b[1] THEN StrLt(Tail(a), Tail(b))
    ELSE Ord(a[1]) < Ord(b[1])

\* x < y on two values of one orderable type (int, str, list of such)
RECURSIVE PyLt(_, _, _)
PyLt(h, x, y) ==
    IF Tag(x) = "num" THEN Payload(x) < Payload(y)
    ELSE IF Tag(x) = "str" THEN StrLt(Payload(x), Payload(y))
    ELSE LET xs == ItemsOf(h, x)
             ys == ItemsOf(h, y)
             n == IF Len(xs) < Len(ys) THEN Len(xs) ELSE Len(ys)
             differ == {i \in 1..n : PyLt(h, xs[i], ys[i]) \/ PyLt(h, ys[i], xs[i])}
         IN  IF differ = {} THEN Len(xs) < Len(ys)
             ELSE LET i == CHOOSE i \in differ : \A j \in differ : i <= j
                  IN  PyLt(h, xs[i], ys[i])

\* sorted(seq) when every comparison is defined: stable, ascending
RECURSIVE SortedValues(_, _)
SortedValues(h, seq) ==
    IF Len(seq) <= 1 THEN seq
    ELSE LET front == SortedValues(h, SubSeq(seq, 1, Len(seq) - 1))
             x == seq[Len(seq)]
             \* x goes after every element that is not greater than it
             keep == {i \in 1..Len(front) : \A j \in 1..i : ~PyLt(h, x, front[j])}
             n == Cardinality(keep)
         IN  SubSeq(front, 1, n) \o <<x>> \o SubSeq(front, n + 1, Len(front))

\* sorted(seq) raises TypeError: some comparison it makes is between values
\* that do not support <  (two dicts, or values of different types)
SortRaises(seq) ==
    /\ Len(seq) >= 2
    /\ \/ \E i, j \in 1..Len(seq) : Tag(seq[i]) # Tag(seq[j])
       \/ \E i \in 1..Len(seq) : Tag(seq[i]) \in {"dict", "none"}

\* list(set(seq)) followed by nothing else: the distinct elements
RECURSIVE Distinct(_)
Distinct(seq) ==
    IF Len(seq) = 0 THEN <<>>
    ELSE LET front == Distinct(SubSeq(seq, 1, Len(seq) - 1))
             x == seq[Len(seq)]
         IN  IF \E i \in 1..Len(front) : front[i] = x THEN front ELSE Append(front, x)

\* hash(v) is defined: v is neither a list nor a dict
Hashable(v) == Tag(v) \in {"str", "num", "none"}

(***************************************************************************)
(* merge_dependencies.  The values of a dependency mapping are range       *)
(* strings.  pick gives, for each range string, the node its walk meets    *)
(* first.                                                                  *)
(***************************************************************************)
\* a faulty loop: result.update(updates), every shared package takes
\* update's range
RECURSIVE UpdateDepItems(_, _, _, _, _)
UpdateDepItems(h, items, i, r, pick) ==
    IF i > Len(items) THEN Ok(h, NoneVal)
    ELSE IF h[r][1] = "list" THEN Raise(h, "TypeError")
    ELSE UpdateDepItems(StoreKey(h, r, items[i][1], items[i][2]), items, i + 1, r, pick)

\* the loop of merge_dependencies over updates.items()[i..], on the copy at r
RECURSIVE MergeDepItems(_, _, _, _, _)
\* line 359: result[package] = merged, unless merge_dependency_versions
\* raised, which ends the loop
StoreMerged(h, items, i, r, pick, merged) ==
    IF merged.err # "ok" THEN Raise(h, merged.err)
    ELSE MergeDepItems(StoreKey(h, r, items[i][1], Str(merged.val)), items, i + 1, r, pick)

MergeDepItems(h, items, i, r, pick) ==
    IF i > Len(items) THEN Ok(h, NoneVal)
    ELSE IF h[r][1] = "list" THEN Raise(h, "TypeError")  \* result[package] on a list
    ELSE IF IndexOfKey(h[r][2], items[i][1]) = 0
    THEN MergeDepItems(StoreKey(h, r, items[i][1], items[i][2]), items, i + 1, r, pick)
    ELSE StoreMerged(h, items, i, r, pick,
                     merge_dependency_versions(Payload(ValueAt(h[r][2], items[i][1])),
                                               Payload(items[i][2]),
                                               pick[Payload(ValueAt(h[r][2], items[i][1]))],
                                               pick[Payload(items[i][2])]))

\* return v unless the loop m raised
Returned(m, v) == IF m.err # "ok" THEN m ELSE Ok(m.heap, v)

\* lines 356-364 of merge_dependencies, result being the copy last allocated
MergeIntoCopy(h1, base_val, updates_val, pick) ==
    IF ~IsDict(updates_val) THEN Raise(h1, "AttributeError")       \* updates.items()
    ELSE Returned(MergeDepItems(h1, ItemsOf(h1, updates_val), 1, Len(h1), pick),
                  <<Tag(base_val), Len(h1)>>)

\* merge_dependencies(base, updates)
merge_dependencies(h, base_val, updates_val, pick) ==
    IF ~IsDict(base_val) /\ ~IsList(base_val) THEN Raise(h, "AttributeError")  \* base.copy()
    ELSE MergeIntoCopy(CopyObject(h, base_val), base_val, updates_val, pick)

(***************************************************************************)
(* The list strategies of _deep_merge_value.                               *)
(***************************************************************************)
\* isinstance(item, dict) and "files" in item
HasFiles(h, item) == IsDict(item) /\ IndexOfKey(ItemsOf(h, item), "files") # 0

\* ":".join(sorted(item["files"]))
DedupKey(h, item) ==
    LET items == ItemsOf(h, item)
        files == items[IndexOfKey(items, "files")][2]
        names == SortedValues(h, ItemsOf(h, files))
    IN  Join(<<":">>, [i \in 1..Len(names) |-> Payload(names[i])])

\* dedup_dict after the loop over base_val: later items overwrite earlier ones
RECURSIVE AddBaseItems(_, _, _)
AddBaseItems(h, items, dedup) ==
    IF Len(items) = 0 THEN dedup
    ELSE LET item == items[1]
         IN  IF HasFiles(h, item)
             THEN AddBaseItems(h, Tail(items), SetItem(dedup, DedupKey(h, item), item))
             ELSE AddBaseItems(h, Tail(items), dedup)

\* a faulty second loop: update entries overwrite base entries
RECURSIVE OverwriteWithUpdateItems(_, _, _)
OverwriteWithUpdateItems(h, items, dedup) ==
    IF Len(items) = 0 THEN dedup
    ELSE LET item == items[1]
         IN  IF HasFiles(h, item)
             THEN OverwriteWithUpdateItems(h, Tail(items), SetItem(dedup, DedupKey(h, item), item))
             ELSE OverwriteWithUpdateItems(h, Tail(items), dedup)

\* dedup_dict after the loop over value: only keys not yet present are added
RECURSIVE AddUpdateItems(_, _, _)
AddUpdateItems(h, items, dedup) ==
    IF Len(items) = 0 THEN dedup
    ELSE LET item == items[1]
         IN  IF HasFiles(h, item) /\ IndexOfKey(dedup, DedupKey(h, item)) = 0
             THEN AddUpdateItems(h, Tail(items), SetItem(dedup, DedupKey(h, item), item))
             ELSE AddUpdateItems(h, Tail(items), dedup)

\* dict(sorted(dedup_dict.items())): the entries in ascending key order
RECURSIVE SortByKey(_)
SortByKey(dedup) ==
    IF Len(dedup) <= 1 THEN dedup
    ELSE LET front == SortByKey(SubSeq(dedup, 1, Len(dedup) - 1))
             x == dedup[Len(dedup)]
             n == Cardinality({i \in 1..Len(front) : StrLt(front[i][1], x[1])})
         IN  SubSeq(front, 1, n) \o <<x>> \o SubSeq(front, n + 1, Len(front))

\* list(dedup_dict.values()), a new list
ValuesList(h, dedup) ==
    Ok(Append(h, <<"list", [i \in 1..Len(dedup) |-> dedup[i][2]]>>), ListRef(Len(h) + 1))

\* lines 391-411: the overrides list, deduplicated by "files"
merge_overrides(h, base_val, value) ==
    ValuesList(h, SortByKey(AddUpdateItems(h, ItemsOf(h, value),
                                           AddBaseItems(h, ItemsOf(h, base_val), <<>>))))

\* lines 416-417: list(set(merged_list)), or merged_list on a TypeError
Deduplicated(merged_list) ==
    IF \A i \in 1..Len(merged_list) : Hashable(merged_list[i])
    THEN Distinct(merged_list)
    ELSE merged_list

\* line 418: sorted(merged_list), a new list
SortedList(h, merged_list) ==
    IF SortRaises(merged_list) THEN Raise(h, "TypeError")
    ELSE Ok(Append(h, <<"list", SortedValues(h, merged_list)>>), ListRef(Len(h) + 1))

\* lines 412-418: concatenate, deduplicate if hashable, sort
merge_lists(h, base_val, value) ==
    SortedList(h, Deduplicated(ItemsOf(h, base_val) \o ItemsOf(h, value)))

(***************************************************************************)
(* _deep_merge_value and deep_merge.                                       *)
(***************************************************************************)
RECURSIVE deep_merge(_, _, _, _, _)
RECURSIVE deep_merge_value(_, _, _, _, _, _)
RECURSIVE DeepMergeItems(_, _, _, _, _, _)

\* result[key] = m unless m raised
Stored(m, r, key) ==
    IF m.err # "ok" THEN m ELSE Ok(StoreKey(m.heap, r, key, m.val), NoneVal)

\* lines 378-424 of _deep_merge_value: the value merged from base_val and value
MergedValueOf(h, key, base_val, value, list_strategy, pick) ==
    IF key \in DEPENDENCY_KEYS THEN merge_dependencies(h, base_val, value, pick)
    ELSE IF IsDict(base_val) /\ IsDict(value)
         THEN deep_merge(h, base_val, value, list_strategy, pick)
    ELSE IF IsList(base_val) /\ IsList(value) THEN
         IF list_strategy = "merge" THEN
             IF key = "overrides" THEN merge_overrides(h, base_val, value)
             ELSE merge_lists(h, base_val, value)
         ELSE Ok(h, value)
    ELSE Ok(h, value)

\* _deep_merge_value(key, value, result, list_strategy), result at address r
deep_merge_value(h, key, value, r, list_strategy, pick) ==
    IF IndexOfKey(h[r][2], key) = 0 THEN Ok(StoreKey(h, r, key, value), NoneVal)
    ELSE Stored(MergedValueOf(h, key, ValueAt(h[r][2], key), value, list_strategy, pick), r, key)

\* the rest of the loop after the item at i gave m
AfterItem(m, items, i, r, list_strategy, pick) ==
    IF m.err # "ok" THEN m
    ELSE DeepMergeItems(m.heap, items, i + 1, r, list_strategy, pick)

\* the loop of deep_merge over updates.items()[i..]
DeepMergeItems(h, items, i, r, list_strategy, pick) ==
    IF i > Len(items) THEN Ok(h, NoneVal)
    ELSE AfterItem(deep_merge_value(h, items[i][1], items[i][2], r, list_strategy, pick),
                   items, i, r, list_strategy, pick)

\* a faulty deep_merge: result = base, with no copy
deep_merge_in_place(h, base_val, updates_val, list_strategy, pick) ==
    Returned(DeepMergeItems(h, ItemsOf(h, updates_val), 1, Payload(base_val), list_strategy, pick),
             DictRef(Payload(base_val)))

\* lines 445-447 of deep_merge, result being the copy last allocated
MergeIntoResult(h1, updates_val, list_strategy, pick) ==
    Returned(DeepMergeItems(h1, ItemsOf(h1, updates_val), 1, Len(h1), list_strategy, pick),
             DictRef(Len(h1)))

\* deep_merge(base, updates, list_strategy)
deep_merge(h, base_val, updates_val, list_strategy, pick) ==
    MergeIntoResult(CopyObject(h, base_val), updates_val, list_strategy, pick)

(***************************************************************************)
(* SpecDeps: merge_dependencies on two dependency mappings.                *)
(***************************************************************************)
DepNames == {"a", "b", "c"}

\* >=1.0.0, >=1.1.0, ^1.0.0
DepRanges ==
    { <<">", "=", "1", ".", "0", ".", "0">>,
      <<">", "=", "1", ".", "1", ".", "0">>,
      <<"^", "1", ".", "0", ".", "0">> }

\* the items of every dependency mapping of at most MaxDeps packages
DepMaps ==
    { m \in UNION { [1..n -> DepNames \X {Str(s) : s \in DepRanges}] : n \in 0..MaxDeps } :
        \A i, j \in 1..Len(m) : i # j => m[i][1] # m[j][1] }

InitDeps ==
    /\ pc = "start"
    /\ \E b, u \in DepMaps : heap = << <<"dict", b>>, <<"dict", u>> >>
    /\ base = DictRef(1)
    /\ update = DictRef(2)
    /\ hashPick \in HashOrders(DepRanges)
    /\ result = [op |-> "none", out |-> NoneVal, err |-> "ok"]
    /\ heap0 = <<>>
    /\ docKey = ""
    /\ strategy = ""
    /\ docs = <<>>
    /\ pos = 0
    /\ merges = 0

\* a call of merge_dependencies(base, update)
CallMergeDependencies ==
    /\ pc = "start"
    /\ pc' = "deps_merged"
    /\ \E m \in {merge_dependencies(heap, base, update, hashPick)} :
           /\ heap' = m.heap
           /\ result' = [op |-> "deps", out |-> m.val, err |-> m.err]
    /\ UNCHANGED <<base, update, hashPick, heap0, docKey, strategy, docs, pos, merges>>

NextDeps == CallMergeDependencies

SpecDeps == InitDeps /\ [][NextDeps]_vars

\* C3: merge_dependencies returns a mapping whose keys are all base keys in
\* base's order followed by the update-only keys in update's order; a key of
\* one side keeps that side's value, a key of both sides gets
\* merge_dependency_versions(base value, update value).
C3_UnionInOrder ==
    pc = "deps_merged" =>
        /\ result.err = "ok"
        /\ IsDict(result.out)
        /\ LET b == ItemsOf(heap, base)
               u == ItemsOf(heap, update)
               r == ItemsOf(heap, result.out)
               fresh(i) == IndexOfKey(b, u[i][1]) = 0
               uOnly == SelectSeq([i \in 1..Len(u) |-> <<u[i][1], fresh(i)>>],
                                  LAMBDA e : e[2])
           IN  /\ KeysOf(r) = KeysOf(b) \o [i \in 1..Len(uOnly) |-> uOnly[i][1]]
               /\ \A i \in 1..Len(r) :
                    LET key == r[i][1]
                        inB == IndexOfKey(b, key) # 0
                        inU == IndexOfKey(u, key) # 0
                    IN  r[i][2] =
                          IF inB /\ inU
                          THEN LET bv == Payload(ValueAt(b, key))
                                   uv == Payload(ValueAt(u, key))
                               IN  Str(merge_dependency_versions(bv, uv, hashPick[bv], hashPick[uv]).val)
                          ELSE IF inB THEN ValueAt(b, key)
                          ELSE ValueAt(u, key)

\* C3 witness: the merged mapping has a base-only key, an update-only key and
\* a shared key whose merged value is update's, different from base's.
C3_Witness ==
    /\ pc = "deps_merged"
    /\ result.err = "ok"
    /\ LET b == ItemsOf(heap, base)
           u == ItemsOf(heap, update)
           r == ItemsOf(heap, result.out)
       IN  /\ \E i \in 1..Len(b) : IndexOfKey(u, b[i][1]) = 0
           /\ \E i \in 1..Len(u) : IndexOfKey(b, u[i][1]) = 0
           /\ \E i \in 1..Len(b) :
                /\ IndexOfKey(u, b[i][1]) # 0
                /\ ValueAt(u, b[i][1]) # b[i][2]
                /\ ValueAt(r, b[i][1]) = ValueAt(u, b[i][1])

(***************************************************************************)
(* json.loads: a JSON text is a tree, <<"D", items>> an object with items  *)
(* <<key, tree>>, <<"L", trees>> an array, a str or an int a scalar.       *)
(* Decoding allocates one heap object per object and array.                *)
(***************************************************************************)
Obj(items) == <<"D", items>>
Arr(elems) == <<"L", elems>>

\* the number of heap objects decoding a tree allocates
RECURSIVE ObjectCount(_)
ObjectCount(tree) ==
    IF tree[1] = "L" THEN
        LET n == [i \in 1..Len(tree[2]) |-> ObjectCount(tree[2][i])]
            sum[i \in 0..Len(tree[2])] == IF i = 0 THEN 0 ELSE sum[i - 1] + n[i]
        IN  1 + sum[Len(tree[2])]
    ELSE IF tree[1] = "D" THEN
        LET n == [i \in 1..Len(tree[2]) |-> ObjectCount(tree[2][i][2])]
            sum[i \in 0..Len(tree[2])] == IF i = 0 THEN 0 ELSE sum[i - 1] + n[i]
        IN  1 + sum[Len(tree[2])]
    ELSE 0

\* the objects decoding a tree allocates when the heap already holds `used`
\* objects (children before their parent, left to right), and the value
RECURSIVE Decode(_, _)
Decode(used, tree) ==
    IF tree[1] \in {"L", "D"} THEN
        LET kids == IF tree[1] = "L" THEN tree[2]
                    ELSE [i \in 1..Len(tree[2]) |-> tree[2][i][2]]
            n == [i \in 1..Len(kids) |-> ObjectCount(kids[i])]
            before[i \in 1..Len(kids) + 1] == IF i = 1 THEN used ELSE before[i - 1] + n[i - 1]
            parts == [i \in 1..Len(kids) |-> Decode(before[i], kids[i])]
            objs[i \in 0..Len(kids)] == IF i = 0 THEN <<>> ELSE objs[i - 1] \o parts[i].objs
            addr == before[Len(kids) + 1] + 1
            self == IF tree[1] = "L"
                    THEN <<"list", [i \in 1..Len(kids) |-> parts[i].val]>>
                    ELSE <<"dict", [i \in 1..Len(kids) |-> <<tree[2][i][1], parts[i].val>>]>>
        IN  [objs |-> Append(objs[Len(kids)], self),
             val |-> <<IF tree[1] = "L" THEN "list" ELSE "dict", addr>>]
    ELSE [objs |-> <<>>, val |-> tree]

\* the heap and the value after a decoding d
Loaded(h, d) == [heap |-> h \o d.objs, val |-> d.val]

\* json.loads(text), allocating on heap h
json_loads(h, tree) == Loaded(h, Decode(Len(h), tree))

(***************************************************************************)
(* One deep_merge of two documents that both carry one key.                *)
(***************************************************************************)
\* elements of an ordinary array: 1, 2, "a", [2], [1], {"x": 1}
PlainElems ==
    { Num(1), Num(2), Str(<<"a">>), Arr(<<Num(2)>>), Arr(<<Num(1)>>), Obj(<< <<"x", Num(1)>> >>) }

\* an override entry {"files": files, "x": x}
Override(files, x) ==
    Obj(<< <<"files", Arr([i \in 1..Len(files) |-> Str(files[i])])>>, <<"x", Num(x)>> >>)

\* elements of an overrides array: entries for "a" (twice) and ["b", "a"],
\* an entry without files, and a string
OverrideElems ==
    { Override(<< <<"a">> >>, 1), Override(<< <<"a">> >>, 2),
      Override(<< <<"b">>, <<"a">> >>, 1),
      Obj(<< <<"x", Num(1)>> >>), Str(<<"a">>) }

\* values of the other shapes: 1, "^1.0.0", {}, {"a": "^1.0.0"}, {"a": ">=1.1.0"}
ShapeValues ==
    { Num(1), Str(<<"^", "1", ".", "0", ".", "0">>), Obj(<<>>),
      Obj(<< <<"a", Str(<<"^", "1", ".", "0", ".", "0">>)>> >>),
      Obj(<< <<"a", Str(<<">", "=", "1", ".", "1", ".", "0">>)>> >>) }

ArraysOf(elems) == { Arr(a) : a \in UNION { [1..n -> elems] : n \in 0..MaxList } }

\* the state before deep_merge(base, update) with base = {"name": "p", k: bv}
\* and update = {k: uv}, both freshly decoded
MergeStart(k, bv, uv) ==
    \E b \in {json_loads(<<>>, Obj(<< <<"name", Str(<<"p">>)>>, <<k, bv>> >>))} :
      \E u \in {json_loads(b.heap, Obj(<< <<k, uv>> >>))} :
        /\ pc = "start"
        /\ docKey = k
        /\ heap = u.heap
        /\ base = b.val
        /\ update = u.val
        /\ heap0 = heap
        /\ result = [op |-> "none", out |-> NoneVal, err |-> "ok"]
        /\ docs = <<>>
        /\ pos = 0
        /\ merges = 0

\* SpecShapes: values of every shape under dependency keys and other keys
ShapeKeys == DEPENDENCY_KEYS \cup {"overrides", "keywords"}

InitShapes ==
    /\ strategy \in {"replace", "merge"}
    /\ hashPick \in HashOrders(DepRanges)
    /\ \E k \in ShapeKeys :
         \E bv, uv \in ShapeValues \cup {Arr(<<>>), Arr(<<Str(<<"a">>)>>)} :
            MergeStart(k, bv, uv)

\* SpecLists: two arrays under an ordinary key
InitLists ==
    /\ strategy \in {"replace", "merge"}
    /\ hashPick \in HashOrders({})
    /\ \E bv, uv \in ArraysOf(PlainElems) : MergeStart("keywords", bv, uv)

\* SpecOverrides: two arrays under the overrides key
InitOverrides ==
    /\ strategy \in {"replace", "merge"}
    /\ hashPick \in HashOrders({})
    /\ \E bv, uv \in ArraysOf(OverrideElems) : MergeStart("overrides", bv, uv)

\* a call of deep_merge(base, update, list_strategy)
CallDeepMerge ==
    /\ pc = "start"
    /\ pc' = "deep_merged"
    /\ \E m \in {deep_merge(heap, base, update, strategy, hashPick)} :
           /\ heap' = m.heap
           /\ result' = [op |-> "deep", out |-> m.val, err |-> m.err]
    /\ UNCHANGED <<base, update, hashPick, heap0, docKey, strategy, docs, pos, merges>>

NextMerge == CallDeepMerge

SpecShapes == InitShapes /\ [][NextMerge]_vars

SpecLists == InitLists /\ [][NextMerge]_vars

SpecOverrides == InitOverrides /\ [][NextMerge]_vars

(***************************************************************************)
(* Properties of one deep_merge.                                           *)
(***************************************************************************)
\* the value the base document holds under the merged key
BaseValue == ValueAt(ItemsOf(heap, base), docKey)

\* the value the update document holds under the merged key
UpdateValue == ValueAt(ItemsOf(heap, update), docKey)

\* the value the returned document holds under the merged key
MergedValue == ValueAt(ItemsOf(heap, result.out), docKey)

\* C4: when the two values of a shared key are neither both objects nor both
\* arrays, deep_merge completes without raising and the result holds the
\* update's value under that key, whatever the key's name.
C4_MismatchedShapesReplace ==
    (/\ pc = "deep_merged"
     /\ ~(IsDict(BaseValue) /\ IsDict(UpdateValue))
     /\ ~(IsList(BaseValue) /\ IsList(UpdateValue)))
    => /\ result.err = "ok"
       /\ MergedValue = UpdateValue

\* every element of base ++ update is hashable, and all are of one type
UniformElements(seq) ==
    /\ \A i \in 1..Len(seq) : Hashable(seq[i])
    /\ \A i, j \in 1..Len(seq) : Tag(seq[i]) = Tag(seq[j])

\* seq is strictly ascending
Ascending(h, seq) == \A i \in 1..(Len(seq) - 1) : PyLt(h, seq[i], seq[i + 1])

\* C5: under strategy merge, two arrays of an ordinary key merge without
\* raising; uniformly hashable and orderable elements give the distinct
\* elements in ascending order, any other elements give base ++ update.
C5_SortOrConcatenate ==
    (pc = "deep_merged" /\ strategy = "merge") =>
        LET b == ItemsOf(heap, BaseValue)
            u == ItemsOf(heap, UpdateValue)
        IN  /\ result.err = "ok"
            /\ IsList(MergedValue)
            /\ LET r == ItemsOf(heap, MergedValue)
               IN  IF UniformElements(b \o u)
                   THEN /\ Ascending(heap, r)
                        /\ {r[i] : i \in 1..Len(r)} = {(b \o u)[i] : i \in 1..Len(b \o u)}
                   ELSE r = b \o u

\* the elements of an array that are objects with a files field
WithFiles(h, seq) == {seq[i] : i \in {j \in 1..Len(seq) : HasFiles(h, seq[j])}}

\* C6: under strategy merge, the merged overrides array holds only elements
\* with a files field, one per identity met in base or update, in strictly
\* ascending identity order; the element of an identity that occurs in base
\* is an element of base, any other is an element of update.
C6_OverridesBaseWins ==
    (pc = "deep_merged" /\ strategy = "merge") =>
        LET b == WithFiles(heap, ItemsOf(heap, BaseValue))
            u == WithFiles(heap, ItemsOf(heap, UpdateValue))
            id(e) == DedupKey(heap, e)
        IN  /\ result.err = "ok"
            /\ IsList(MergedValue)
            /\ LET r == ItemsOf(heap, MergedValue)
               IN  /\ \A i \in 1..Len(r) : HasFiles(heap, r[i])
                   /\ \A i \in 1..(Len(r) - 1) : StrLt(id(r[i]), id(r[i + 1]))
                   /\ {id(r[i]) : i \in 1..Len(r)} = {id(e) : e \in b \cup u}
                   /\ \A i \in 1..Len(r) :
                        IF \E e \in b : id(e) = id(r[i])
                        THEN r[i] \in b
                        ELSE r[i] \in u

\* C6 witness: base and update hold different entries of one identity, update
\* holds an entry of an identity base lacks, an element without files is
\* dropped, and the merged array holds the base entry followed by the new one.
C6_Witness ==
    /\ pc = "deep_merged"
    /\ strategy = "merge"
    /\ result.err = "ok"
    /\ LET bs == ItemsOf(heap, BaseValue)
           us == ItemsOf(heap, UpdateValue)
           r == ItemsOf(heap, MergedValue)
       IN  /\ \E i \in 1..Len(bs) : ~HasFiles(heap, bs[i])
           /\ \E i \in 1..Len(bs), j \in 1..Len(us) :
                /\ HasFiles(heap, bs[i]) /\ HasFiles(heap, us[j])
                /\ DedupKey(heap, bs[i]) = DedupKey(heap, us[j])
                /\ ItemsOf(heap, bs[i]) # ItemsOf(heap, us[j])
                /\ Len(r) = 2
                /\ r[1] = bs[i]
                /\ r[2] \in WithFiles(heap, us)

(***************************************************************************)
(* load_package_json and merge_package_json_files.  A file is the tree of  *)
(* its JSON text, or BadText when the text does not decode.                *)
(***************************************************************************)
MaxDocs == 3

BadText == <<"X", 0>>

\* a faulty check: the content is returned whatever its root is
UncheckedRoot(c) == Ok(c.heap, c.val)

\* lines 462-465: the content, or a TypeError when it is no dict
CheckedRoot(c) == IF ~IsDict(c.val) THEN Raise(c.heap, "TypeError") ELSE Ok(c.heap, c.val)

\* load_package_json(filepath)
load_package_json(h, file) ==
    IF file = BadText THEN Raise(h, "JSONDecodeError")
    ELSE CheckedRoot(json_loads(h, file))

V100 == Str(<<"^", "1", ".", "0", ".", "0">>)
V110 == Str(<<">", "=", "1", ".", "1", ".", "0">>)

\* the files of a run: package documents, a document whose merge raises
\* after an array of strings, a text with an array at its root, a bad text
ValidFiles ==
    { Obj(<< <<"name", Str(<<"p">>)>>,
             <<"dependencies", Obj(<< <<"a", V100>> >>)>>,
             <<"config", Obj(<< <<"x", Num(1)>> >>)>>,
             <<"keywords", Arr(<<Str(<<"b">>)>>)>> >>),
      Obj(<< <<"dependencies", Obj(<< <<"a", V110>>, <<"b", V100>> >>)>>,
             <<"config", Obj(<< <<"y", Num(2)>> >>)>>,
             <<"keywords", Arr(<<Str(<<"a">>)>>)>> >>),
      Obj(<< <<"config", Obj(<< <<"x", Num(2)>> >>)>>,
             <<"overrides", Arr(<<Override(<< <<"a">> >>, 1)>>)>> >>),
      Obj(<< <<"overrides", Arr(<<Override(<< <<"a">> >>, 2), Override(<< <<"b">> >>, 1)>>)>>,
             <<"name", Str(<<"q">>)>> >>),
      Obj(<< <<"keywords", Arr(<<Num(1)>>)>> >>) }

InvalidFiles == { Arr(<<>>), BadText }

FileLists == UNION { [1..n -> ValidFiles \cup InvalidFiles] : n \in 0..MaxDocs }

\* load_package_json accepts the file: it decodes, to an object
IsValidFile(file) == file # BadText /\ file[1] = "D"

\* the objects a load allocated, by address
Allocated(h, h1) == [a \in (Len(h) + 1)..Len(h1) |-> h1[a]]

Init ==
    /\ pc = "start"
    /\ docs \in FileLists
    /\ strategy \in {"replace", "merge"}
    /\ hashPick \in HashOrders(DepRanges)
    /\ heap = <<>>
    /\ heap0 = <<>>
    /\ base = NoneVal
    /\ update = NoneVal
    /\ result = [op |-> "none", out |-> NoneVal, err |-> "ok"]
    /\ docKey = ""
    /\ pos = 0
    /\ merges = 0

\* lines 482-483: no files, return {}
ReturnEmpty ==
    /\ pc = "start"
    /\ docs = <<>>
    /\ pc' = "done"
    /\ heap' = Append(heap, <<"dict", <<>>>>)
    /\ result' = [op |-> "fold", out |-> DictRef(Len(heap) + 1), err |-> "ok"]
    /\ UNCHANGED <<base, update, hashPick, heap0, docKey, strategy, docs, pos, merges>>

\* line 486: result = load_package_json(filepaths[0])
LoadFirst ==
    /\ pc = "start"
    /\ docs # <<>>
    /\ \E c \in {load_package_json(heap, docs[1])} :
           /\ heap' = c.heap
           /\ heap0' = heap0 @@ Allocated(heap, c.heap)
           /\ pos' = 1
           /\ IF c.err = "ok"
              THEN /\ pc' = "loop"
                   /\ base' = c.val
                   /\ UNCHANGED result
              ELSE /\ pc' = "load_error"
                   /\ result' = [result EXCEPT !.err = c.err]
                   /\ UNCHANGED base
    /\ UNCHANGED <<update, hashPick, docKey, strategy, docs, merges>>

\* line 490: updates = load_package_json(filepath)
LoadNext ==
    /\ pc = "loop"
    /\ pos < Len(docs)
    /\ \E c \in {load_package_json(heap, docs[pos + 1])} :
           /\ heap' = c.heap
           /\ heap0' = heap0 @@ Allocated(heap, c.heap)
           /\ pos' = pos + 1
           /\ IF c.err = "ok"
              THEN /\ pc' = "loaded"
                   /\ update' = c.val
                   /\ UNCHANGED result
              ELSE /\ pc' = "load_error"
                   /\ result' = [result EXCEPT !.err = c.err]
                   /\ UNCHANGED update
    /\ UNCHANGED <<base, hashPick, docKey, strategy, docs, merges>>

\* line 491: result = deep_merge(result, updates, list_strategy)
MergeNext ==
    /\ pc = "loaded"
    /\ \E m \in {deep_merge(heap, base, update, strategy, hashPick)} :
           /\ heap' = m.heap
           /\ merges' = merges + 1
           /\ IF m.err = "ok"
              THEN /\ pc' = "loop"
                   /\ base' = m.val
                   /\ UNCHANGED result
              ELSE /\ pc' = "merge_error"
                   /\ result' = [result EXCEPT !.err = m.err]
                   /\ UNCHANGED base
    /\ UNCHANGED <<update, hashPick, heap0, docKey, strategy, docs, pos>>

\* line 493: return result
ReturnResult ==
    /\ pc = "loop"
    /\ pos = Len(docs)
    /\ pc' = "done"
    /\ result' = [op |-> "fold", out |-> base, err |-> "ok"]
    /\ UNCHANGED <<base, update, hashPick, heap, heap0, docKey, strategy, docs, pos, merges>>

Next == ReturnEmpty \/ LoadFirst \/ LoadNext \/ MergeNext \/ ReturnResult

Spec == Init /\ [][Next]_vars

(***************************************************************************)
(* Properties of the fold (Spec).                                          *)
(***************************************************************************)
\* the position of the first file load_package_json rejects, 0 when none
FirstRejected ==
    IF \E i \in 1..Len(docs) : ~IsValidFile(docs[i])
    THEN CHOOSE i \in 1..Len(docs) : ~IsValidFile(docs[i]) /\ \A j \in 1..(i - 1) : IsValidFile(docs[j])
    ELSE 0

\* C7: when some document fails to decode or has a non-object root, the
\* error is raised before any deep_merge step has executed.
C7_RejectedBeforeAnyMerge ==
    pc = "load_error" => merges = 0

\* C7, as the code has it: a rejected document is the first such document of
\* the list, it is rejected when its turn to be loaded comes, after the
\* merges of all documents before it and before any merge that involves it
\* or a later document, and no result is returned.
C7_RejectedAtItsTurn ==
    pc = "load_error" =>
        /\ pos = FirstRejected
        /\ merges = (IF pos >= 2 THEN pos - 2 ELSE 0)
        /\ result.op = "none"
        /\ result.err \in {"TypeError", "JSONDecodeError"}

\* C7 witness: the third document is rejected after the first two were merged.
C7_Witness ==
    /\ pc = "load_error"
    /\ pos = 3
    /\ merges = 1
    /\ IsValidFile(docs[1]) /\ IsValidFile(docs[2]) /\ ~IsValidFile(docs[3])

\* C10: no merge step modifies an object of an input document: every object
\* a load allocated holds the items it held when it was loaded.
C10_InputsUnchanged ==
    \A a \in DOMAIN heap0 : heap[a] = heap0[a]

\* the references among the values of a dict
RefsOf(items) == {items[i][2] : i \in {j \in 1..Len(items) : Tag(items[j][2]) \in {"dict", "list"}}}

\* C10 witness: a fold of three documents has returned a result that is a new
\* object, holds a nested object or array of an input by reference, and
\* holds a nested object or array that a merge built.
C10_Witness ==
    /\ pc = "done"
    /\ merges = 2
    /\ Payload(result.out) \notin DOMAIN heap0
    /\ \E v \in RefsOf(ItemsOf(heap, result.out)) : Payload(v) \in DOMAIN heap0
    /\ \E v \in RefsOf(ItemsOf(heap, result.out)) : Payload(v) \notin DOMAIN heap0

====
